---------------------------- MODULE Spec2Model ----------------------------
(***************************************************************************)
(* Calendar view component: the useCalendar state hook, the CalendarView   *)
(* handlers, the EventModal form with its validator, and the date-grid     *)
(* utilities, modelled as state machines.                                  *)
(*                                                                         *)
(* A JavaScript Date is a record [day, ms]: day is the local calendar day  *)
(* counted from 1970-01-01 and ms the local time of day in milliseconds.   *)
(* new Date(NaN) is InvalidDate; null and undefined are Null, Undefined.   *)
(***************************************************************************)
EXTENDS Integers, Sequences, FiniteSets, TLC

\* ------------------------------------------------------------------------
\* Values
\* ------------------------------------------------------------------------
Null == [null |-> TRUE]
Undefined == [undefined |-> TRUE]
InvalidDate == [nan |-> TRUE]

MsPerDay == 86400000
MsPerHour == 3600000
MsPerMinute == 60 * 1000

IsDate(x) == DOMAIN x = {"day", "ms"}
Truthy(x) == x # Null /\ x # Undefined
\* a method call on x (x.getFullYear(), x.toDateString()) throws a TypeError
Absent(x) == x = Null \/ x = Undefined

\* Date comparison operators of JavaScript (valueOf order); any comparison
\* with an Invalid Date is false.
DateLT(a, b) == /\ IsDate(a) /\ IsDate(b)
                /\ (a.day < b.day \/ (a.day = b.day /\ a.ms < b.ms))
DateGE(a, b) == /\ IsDate(a) /\ IsDate(b)
                /\ (a.day > b.day \/ (a.day = b.day /\ a.ms >= b.ms))
DateGT(a, b) == DateLT(b, a)
DateLE(a, b) == DateGE(b, a)

\* ------------------------------------------------------------------------
\* Local calendar arithmetic (Date constructor and getters)
\* ------------------------------------------------------------------------
IsLeap(y) == (y % 4 = 0 /\ y % 100 # 0) \/ y % 400 = 0

\* month is 0-based as in Date.getMonth()
DaysInMonth(y, m) ==
    IF m = 1 THEN (IF IsLeap(y) THEN 29 ELSE 28)
    ELSE IF m \in {3, 5, 8, 10} THEN 30 ELSE 31

\* new Date(y, m, d): day number of a civil date, m 0-based, d may overflow
\* the month (day 0 is the last day of the previous month).
DaysFromCivil(y, m, d) ==
    LET yy == IF m <= 1 THEN y - 1 ELSE y
        era == yy \div 400
        yoe == yy - era * 400
        mp == (m + 10) % 12
        doy == (153 * mp + 2) \div 5 + d - 1
        doe == yoe * 365 + yoe \div 4 - yoe \div 100 + doy
    IN era * 146097 + doe - 719468

\* getFullYear / getMonth / getDate of a day number
CivilFromDays(n) ==
    LET z == n + 719468
        era == z \div 146097
        doe == z - era * 146097
        yoe == (doe - doe \div 1460 + doe \div 36524 - doe \div 146096) \div 365
        doy == doe - (365 * yoe + yoe \div 4 - yoe \div 100)
        mp == (5 * doy + 2) \div 153
        d == doy - (153 * mp + 2) \div 5 + 1
        m == IF mp < 10 THEN mp + 2 ELSE mp - 10
        y == yoe + era * 400 + (IF m <= 1 THEN 1 ELSE 0)
    IN [y |-> y, m |-> m, d |-> d]

getFullYear(date) == CivilFromDays(date.day).y
getMonth(date) == CivilFromDays(date.day).m
getDate(date) == CivilFromDays(date.day).d
\* 1970-01-01 was a Thursday; 0 = Sunday
getDay(date) == (date.day + 4) % 7
getHours(date) == date.ms \div MsPerHour
getMinutes(date) == (date.ms % MsPerHour) \div MsPerMinute

MkDate(y, m, d, h, mi) ==
    [day |-> DaysFromCivil(y, m, d), ms |-> h * MsPerHour + mi * MsPerMinute]

\* ------------------------------------------------------------------------
\* date-fns helpers used by date.utils
\* ------------------------------------------------------------------------
startOfDay(date) == [day |-> date.day, ms |-> 0]

startOfWeekOn(date, weekStartsOn) ==
    LET diff == (getDay(date) + 7 - weekStartsOn) % 7
    IN [day |-> date.day - diff, ms |-> 0]

startOfWeek(date) == startOfWeekOn(date, 0)

addDays(date, amount) == [day |-> date.day + amount, ms |-> date.ms]

addWeeks(date, amount) == addDays(date, amount * 7)

\* a variant that lets the day of month overflow into the following month,
\* as Date.prototype.setMonth does
addMonths_overflow(date, amount) ==
    LET c == CivilFromDays(date.day)
        total == c.y * 12 + c.m + amount
    IN [day |-> DaysFromCivil(total \div 12, total % 12, 1) + c.d - 1, ms |-> date.ms]

\* date-fns addMonths: the day of month is kept, clamped to the last day of
\* the target month; the time of day is kept.
addMonths(date, amount) ==
    LET c == CivilFromDays(date.day)
        total == c.y * 12 + c.m + amount
        ty == total \div 12
        tm == total % 12
        dim == DaysInMonth(ty, tm)
        td == IF c.d >= dim THEN dim ELSE c.d
    IN [day |-> DaysFromCivil(ty, tm, td), ms |-> date.ms]

isSameMonth(a, b) == getFullYear(a) = getFullYear(b) /\ getMonth(a) = getMonth(b)

\* the getters of an Invalid Date return NaN, and NaN === NaN is false
isSameDayCustom(date1, date2) ==
    /\ IsDate(date1) /\ IsDate(date2)
    /\ getFullYear(date1) = getFullYear(date2)
    /\ getMonth(date1) = getMonth(date2)
    /\ getDate(date1) = getDate(date2)

getNextMonth(date) == addMonths(date, 1)
\* a variant that goes back thirty days
getPreviousMonth_thirtyDays(date) == addDays(date, -30)
getPreviousMonth(date) == addMonths(date, -1)
getNextWeek(date) == addWeeks(date, 1)
getPreviousWeek(date) == addWeeks(date, -1)

GridCells == 42

\* a variant whose weeks start on Monday
getCalendarGrid_mondayStart(date) ==
    LET firstDay == [day |-> DaysFromCivil(getFullYear(date), getMonth(date), 1),
                     ms |-> 0]
        startDate == startOfWeekOn(firstDay, 1)
    IN [i \in 1..GridCells |-> addDays(startDate, i - 1)]

\* a variant that renders five weeks
getCalendarGrid_fiveWeeks(date) ==
    LET firstDay == [day |-> DaysFromCivil(getFullYear(date), getMonth(date), 1),
                     ms |-> 0]
        startDate == startOfWeek(firstDay)
    IN [i \in 1..35 |-> addDays(startDate, i - 1)]

getCalendarGrid(date) ==
    LET firstDay == [day |-> DaysFromCivil(getFullYear(date), getMonth(date), 1),
                     ms |-> 0]
        startDate == startOfWeek(firstDay)
    IN [i \in 1..GridCells |-> addDays(startDate, i - 1)]

\* a variant whose week starts on Monday
getWeekGrid_mondayStart(date) ==
    LET startDate == startOfWeekOn(date, 1)
    IN [i \in 1..7 |-> addDays(startDate, i - 1)]

getWeekGrid(date) ==
    LET startDate == startOfWeek(date)
    IN [i \in 1..7 |-> addDays(startDate, i - 1)]

isCurrentMonth(date, currentMonth) == isSameMonth(date, currentMonth)

\* ------------------------------------------------------------------------
\* Bounds and inputs
\* ------------------------------------------------------------------------
\* Navigation is cut off outside a window of days that starts at WindowStart:
\* HookWindowDays wide for the hook alone, NavWindowDays wide for the widget.
HookWindowDays == 101
NavWindowDays == 8

HookWindowStart == DaysFromCivil(2024, 0, 20)
NavWindowStart == DaysFromCivil(2024, 2, 15)

Views == {"month", "week"}
Directions == {"prev", "next"}

\* new Date(): the wall clock when the handler runs
Today == MkDate(2024, 2, 20, 10, 15)
D20240315 == MkDate(2024, 2, 15, 0, 0)
D20240320 == MkDate(2024, 2, 20, 0, 0)
InitialDates == {D20240315, Today}

\* title strings are kept as their length and the number of leading and
\* trailing white-space characters that trim() removes
Str(len, pad) == [len |-> len, pad |-> pad]
length(s) == s.len
trim(s) == Str(s.len - s.pad, 0)

evt1 == [id |-> "evt-1", title |-> Str(12, 0), description |-> 24,
         startDate |-> MkDate(2024, 2, 20, 9, 0),
         endDate |-> MkDate(2024, 2, 20, 10, 0)]
evt2 == [id |-> "evt-2", title |-> Str(13, 0), description |-> 0,
         startDate |-> MkDate(2024, 2, 20, 9, 30),
         endDate |-> MkDate(2024, 2, 20, 10, 30)]
EventPool == {evt1, evt2}
EventLists == {<<evt1, evt2>>, <<evt2>>}

\* dates a caller of the hook passes to selectDate / openEventModal /
\* navigateToDate
HookDates == {D20240320, MkDate(2024, 3, 2, 9, 30)}

\* ------------------------------------------------------------------------
\* State
\* ------------------------------------------------------------------------
VARIABLES
    state,      \* useCalendar: the CalendarState record
    formData,   \* EventModal: the form fields
    errors,     \* EventModal: field name -> message
    events,     \* the events prop supplied by the owning application
    emitted,    \* callbacks invoked by the last handler, in call order
    lastOp,     \* the last handler that ran, with its arguments
    refDate,    \* MonthView: the currentDate prop of a render
    calendarGrid, \* MonthView: the cells it renders, <<>> before the render
    call,       \* a call of an exported function: its name, arguments, result
    managerEvents \* useEventManager: its events state

\* the variables no handler of the widget or of the hook writes
pure == <<refDate, calendarGrid, call, managerEvents>>

vars == <<state, formData, errors, events, emitted, lastOp, refDate, calendarGrid,
         call, managerEvents>>

NoErrors == [k \in {} |-> ""]

\* ------------------------------------------------------------------------
\* useCalendar: the state transitions (setState updater functions)
\* ------------------------------------------------------------------------
InitialState(initialDate, initialView) ==
    [currentDate |-> initialDate,
     view |-> initialView,
     selectedDate |-> Null,
     selectedEvent |-> Null,
     isEventModalOpen |-> FALSE]

goToNextMonth(prev) == [prev EXCEPT !.currentDate = getNextMonth(@)]

goToPreviousMonth(prev) == [prev EXCEPT !.currentDate = getPreviousMonth(@)]

goToNextWeek(prev) == [prev EXCEPT !.currentDate = getNextWeek(@)]

goToPreviousWeek(prev) == [prev EXCEPT !.currentDate = getPreviousWeek(@)]

goToToday(prev, now) == [prev EXCEPT !.currentDate = now]

setView(prev, view) == [prev EXCEPT !.view = view]

\* a variant that opens the dialog on selection
selectDate_opensModal(prev, date) ==
    [prev EXCEPT !.selectedDate = date, !.isEventModalOpen = TRUE]

selectDate(prev, date) == [prev EXCEPT !.selectedDate = date]

\* a variant that overwrites selectedDate even when no date is passed
openEventModal_dropsDate(prev, event, date) ==
    [prev EXCEPT !.selectedEvent = IF Truthy(event) THEN event ELSE Null,
                 !.selectedDate = IF Truthy(date) THEN date ELSE Null,
                 !.isEventModalOpen = TRUE]

openEventModal(prev, event, date) ==
    [prev EXCEPT !.selectedEvent = IF Truthy(event) THEN event ELSE Null,
                 !.selectedDate = IF Truthy(date) THEN date ELSE @,
                 !.isEventModalOpen = TRUE]

\* a variant that forgets to reset selectedEvent
closeEventModal_keepsEvent(prev) ==
    [prev EXCEPT !.isEventModalOpen = FALSE]

\* a variant that also clears the highlighted date
closeEventModal_clearsDate(prev) ==
    [prev EXCEPT !.selectedEvent = Null,
                 !.selectedDate = Null,
                 !.isEventModalOpen = FALSE]

closeEventModal(prev) ==
    [prev EXCEPT !.selectedEvent = Null,
                 !.isEventModalOpen = FALSE]

navigateToDate(prev, date) ==
    [prev EXCEPT !.currentDate = date,
                 !.selectedDate = date]

\* a variant that steps by month whatever the view
handleNavigation_ignoresView(prev, direction) ==
    IF direction = "prev" THEN goToPreviousMonth(prev) ELSE goToNextMonth(prev)

\* CalendarView.handleNavigation: which hook transition the arrows call
handleNavigation(prev, direction) ==
    IF prev.view = "month"
    THEN (IF direction = "prev" THEN goToPreviousMonth(prev) ELSE goToNextMonth(prev))
    ELSE (IF direction = "prev" THEN goToPreviousWeek(prev) ELSE goToNextWeek(prev))

\* CalendarView.handleViewToggle
handleViewToggle(prev) ==
    setView(prev, IF prev.view = "month" THEN "week" ELSE "month")

\* the text format(date, 'MMM d') prints: the month and the day of month
formatMMMd(date) == [month |-> getMonth(date), day |-> getDate(date)]
\* the text format(date, 'MMM d, yyyy') prints
formatMMMdyyyy(date) ==
    [month |-> getMonth(date), day |-> getDate(date), year |-> getFullYear(date)]

\* CalendarView.formatCurrentDate: the header label
formatCurrentDate(st) ==
    IF st.view = "month"
    THEN [month |-> getMonth(st.currentDate), year |-> getFullYear(st.currentDate)]
    ELSE LET weekStart == st.currentDate
             weekEnd == addDays(weekStart, 6)
         IN [from |-> formatMMMd(weekStart), to |-> formatMMMdyyyy(weekEnd)]

InWindow(date, start, days) == date.day >= start /\ date.day < start + days

\* ------------------------------------------------------------------------
\* The hook on its own: every transition it exports, called in any order
\* ------------------------------------------------------------------------
InitModal(now) ==
    /\ formData = [title |-> Str(0, 0), description |-> 0,
                   startDate |-> now, endDate |-> now]
    /\ errors = NoErrors
    /\ emitted = <<>>

NoCall == [fn |-> "none"]

\* useEventManager's events state: useState(initialEvents) takes its
\* argument on the first render
useEventManagerMount(initialEvents) == initialEvents
\* and on a later render keeps the state prev, whatever initialEvents is
useEventManager(prev, initialEvents) == prev

\* useEventManager.getEventById: events.find(event => event.id === id)
getEventById(evs, id) ==
    IF \E i \in DOMAIN evs : evs[i].id = id
    THEN evs[CHOOSE i \in DOMAIN evs :
                 evs[i].id = id /\ \A j \in 1..(i - 1) : evs[j].id # id]
    ELSE Undefined

InitPure ==
    /\ refDate = D20240315
    /\ calendarGrid = <<>>
    /\ call = NoCall

InitHook ==
    /\ \E d \in InitialDates, v \in Views : state = InitialState(d, v)
    /\ InitModal(Today)
    /\ InitPure
    /\ events = <<evt1, evt2>>
    /\ managerEvents = useEventManagerMount(events)
    /\ lastOp = [op |-> "init"]

HookFrame == UNCHANGED <<formData, errors, events, emitted, pure>>

HookNavigate ==
    \E direction \in Directions :
        /\ InWindow(handleNavigation(state, direction).currentDate,
                    HookWindowStart, HookWindowDays)
        /\ state' = handleNavigation(state, direction)
        /\ lastOp' = [op |-> "navigate", direction |-> direction]
        /\ HookFrame

HookGoToToday ==
    /\ state' = goToToday(state, Today)
    /\ lastOp' = [op |-> "goToToday"]
    /\ HookFrame

HookSetView ==
    \E v \in Views :
        /\ state' = setView(state, v)
        /\ lastOp' = [op |-> "setView", view |-> v]
        /\ HookFrame

HookSelectDate ==
    \E d \in HookDates :
        /\ state' = selectDate(state, d)
        /\ lastOp' = [op |-> "selectDate", date |-> d]
        /\ HookFrame

HookOpenEventModal ==
    \E e \in EventPool \cup {Undefined}, d \in HookDates \cup {Undefined} :
        /\ state' = openEventModal(state, e, d)
        /\ lastOp' = [op |-> "openEventModal", event |-> e, date |-> d,
                      over |-> state.selectedEvent]
        /\ HookFrame

HookCloseEventModal ==
    /\ state' = closeEventModal(state)
    /\ lastOp' = [op |-> "closeEventModal"]
    /\ HookFrame

HookNavigateToDate ==
    \E d \in HookDates :
        /\ state' = navigateToDate(state, d)
        /\ lastOp' = [op |-> "navigateToDate", date |-> d]
        /\ HookFrame

NextHook ==
    \/ HookNavigate
    \/ HookGoToToday
    \/ HookSetView
    \/ HookSelectDate
    \/ HookOpenEventModal
    \/ HookCloseEventModal
    \/ HookNavigateToDate

SpecHook == InitHook /\ [][NextHook]_vars

\* ------------------------------------------------------------------------
\* event.utils and WeekView: which events a view shows
\* ------------------------------------------------------------------------
Min(a, b) == IF a <= b THEN a ELSE b
\* CalendarCell shows dayEvents.slice(0, 3)
Min3(n) == Min(n, 3)

RECURSIVE filter(_, _)
\* Array.prototype.filter with the predicate given as the set of kept values
filter(seq, keep) ==
    IF seq = <<>> THEN <<>>
    ELSE (IF Head(seq) \in keep THEN <<Head(seq)>> ELSE <<>>) \o filter(Tail(seq), keep)

Range(seq) == {seq[i] : i \in DOMAIN seq}

\* a variant that removes the rejected elements from the receiver itself and
\* returns the receiver
arrayFilter_inPlace(receiver, keep) ==
    [receiver |-> filter(receiver, keep), result |-> filter(receiver, keep),
     sameObject |-> TRUE]

\* receiver.filter(...) as a call on an array object: what the receiver holds
\* afterwards, what is returned, and whether the returned array is the
\* receiver object; filter writes nothing to its receiver and allocates the
\* array it returns
arrayFilter(receiver, keep) ==
    [receiver |-> receiver, result |-> filter(receiver, keep), sameObject |-> FALSE]

\* an argument (array or object) a function only reads (for..of, find,
\* some, property reads, {...x} spread): what it holds afterwards
readOnly(x) == x

setHours(date, h, mi, sec, ms) ==
    [day |-> date.day, ms |-> h * MsPerHour + mi * MsPerMinute + sec * 1000 + ms]

\* new Date(date.getTime() + delta) for 0 <= delta < one day
plusMs(date, delta) ==
    [day |-> date.day + (date.ms + delta) \div MsPerDay,
     ms |-> (date.ms + delta) % MsPerDay]

SlotsPerDay == 24 * 2

\* getTimeSlots(): the 48 half-hour marks of the day on which it is called
getTimeSlots(now) ==
    [i \in 1..SlotsPerDay |->
        setHours(now, (i - 1) \div 2, ((i - 1) % 2) * 30, 0, 0)]

getEventsForDate(evs, date) ==
    filter(evs, {e \in Range(evs) : isSameDayCustom(e.startDate, date)})

\* the filter predicate of getEventsForWeek
inWeek(e, weekStart) ==
    LET weekEnd == setHours(addDays(weekStart, 6), 23, 59, 59, 999)
    IN DateGE(e.startDate, weekStart) /\ DateLE(e.startDate, weekEnd)

getEventsForWeek(evs, weekStart) ==
    filter(evs, {e \in Range(evs) : inWeek(e, weekStart)})

\* a.toDateString() === b.toDateString(): equal exactly for dates of the same
\* local day; an Invalid Date prints as "Invalid Date"
sameDateString(a, b) ==
    IF IsDate(a) /\ IsDate(b) THEN a.day = b.day ELSE a = b

\* the filter predicate of WeekView.getEventsForDay
onDay(e, day) ==
    LET sod == setHours(day, 0, 0, 0, 0)
        eod == setHours(day, 23, 59, 59, 999)
    IN \/ sameDateString(e.startDate, day)
       \/ sameDateString(e.endDate, day)
       \/ (DateLE(e.startDate, sod) /\ DateGE(e.endDate, eod))
       \/ (DateLE(e.startDate, eod) /\ DateGE(e.endDate, sod))

\* the same predicate throws a TypeError: startDate.toDateString() is called
\* first, endDate.toDateString() only when the start is on another day
onDayRaises(e, day) ==
    \/ Absent(e.startDate)
    \/ (~sameDateString(e.startDate, day) /\ Absent(e.endDate))

\* getEventsForDate throws a TypeError: filter visits every element and
\* isSameDayCustom calls startDate.getFullYear()
getEventsForDateRaises(evs) == \E e \in Range(evs) : Absent(e.startDate)

\* WeekView.getEventsForDay throws a TypeError
getEventsForDayRaises(weekDays, weekEvents, dayIndex) ==
    \E e \in Range(weekEvents) : onDayRaises(e, weekDays[dayIndex])

\* WeekView.getEventsForDay
getEventsForDay(weekDays, weekEvents, dayIndex) ==
    filter(weekEvents, {e \in Range(weekEvents) : onDay(e, weekDays[dayIndex])})

\* a variant whose slot is closed at its end
inTimeSlot_closed(e, timeSlot) ==
    LET slotEnd == plusMs(timeSlot, 30 * MsPerMinute)
    IN DateGE(e.startDate, timeSlot) /\ DateLE(e.startDate, slotEnd)

\* the filter predicate of WeekView.getEventsForTimeSlot
inTimeSlot(e, timeSlot) ==
    LET slotStart == timeSlot
        slotEnd == plusMs(timeSlot, 30 * MsPerMinute)
    IN DateGE(e.startDate, slotStart) /\ DateLT(e.startDate, slotEnd)

\* WeekView.getEventsForTimeSlot, given the result of getEventsForDay(dayIndex)
getEventsForTimeSlot(dayEvents, timeSlot) ==
    filter(dayEvents, {e \in Range(dayEvents) : inTimeSlot(e, timeSlot)})

\* a variant that also counts events that only touch
eventsOverlap_closed(event1, event2) ==
    DateLE(event1.startDate, event2.endDate) /\ DateLE(event2.startDate, event1.endDate)

\* a variant that asks whether event2 starts inside event1
eventsOverlap_startsInside(event1, event2) ==
    DateLE(event1.startDate, event2.startDate) /\ DateLT(event2.startDate, event1.endDate)

eventsOverlap(event1, event2) ==
    DateLT(event1.startDate, event2.endDate) /\ DateLT(event2.startDate, event1.endDate)

\* a variant in which event joins the last group that overlaps it
addToGroups_lastGroup(groups, event) ==
    LET hits == {g \in DOMAIN groups :
                   \E k \in DOMAIN groups[g] : eventsOverlap(event, groups[g][k])}
    IN IF hits = {} THEN Append(groups, <<event>>)
       ELSE LET last == CHOOSE g \in hits : \A h \in hits : g >= h
            IN [groups EXCEPT ![last] = Append(@, event)]

\* one turn of the loop of groupOverlappingEvents: event joins the first
\* group that has an event overlapping it, else starts a group of its own
addToGroups(groups, event) ==
    LET hits == {g \in DOMAIN groups :
                   \E k \in DOMAIN groups[g] : eventsOverlap(event, groups[g][k])}
    IN IF hits = {} THEN Append(groups, <<event>>)
       ELSE LET first == CHOOSE g \in hits : \A h \in hits : g <= h
            IN [groups EXCEPT ![first] = Append(@, event)]

RECURSIVE groupInto(_, _)
\* the loop over the remaining events
groupInto(groups, evs) ==
    IF evs = <<>> THEN groups
    ELSE groupInto(addToGroups(groups, Head(evs)), Tail(evs))

groupOverlappingEvents(evs) == groupInto(<<>>, evs)

\* a variant without the minimum height
calculateEventPosition_noMinimum(event) ==
    LET startPosition == getHours(event.startDate) * 2
                         + (IF getMinutes(event.startDate) >= 30 THEN 1 ELSE 0)
        endPosition == getHours(event.endDate) * 2
                       + (IF getMinutes(event.endDate) >= 30 THEN 1 ELSE 0)
    IN [top |-> startPosition * 20, height |-> (endPosition - startPosition) * 20]

\* calculateEventPosition, top and height in px
calculateEventPosition(event) ==
    LET startPosition == getHours(event.startDate) * 2
                         + (IF getMinutes(event.startDate) >= 30 THEN 1 ELSE 0)
        endPosition == getHours(event.endDate) * 2
                       + (IF getMinutes(event.endDate) >= 30 THEN 1 ELSE 0)
        height == IF endPosition - startPosition >= 1
                  THEN endPosition - startPosition ELSE 1
    IN [top |-> startPosition * 20, height |-> height * 20]

\* a variant that gives every chip the full column width
chipStyle_fullWidth(eventsInSlot, event) ==
    LET position == calculateEventPosition(event)
    IN [event |-> event, top |-> position.top, height |-> position.height,
        left |-> [num |-> 0, den |-> 1], width |-> [num |-> 1, den |-> 1]]

\* the style of the chip WeekView renders for event in a slot cell: top and
\* height in px, left and width as fractions num/den of the column width
chipStyle(eventsInSlot, event) ==
    LET position == calculateEventPosition(event)
        overlappingGroups == groupOverlappingEvents(eventsInSlot)
        found == {g \in DOMAIN overlappingGroups :
                    \E k \in DOMAIN overlappingGroups[g] :
                       overlappingGroups[g][k].id = event.id}
        group == IF found = {} THEN <<>>
                 ELSE overlappingGroups[CHOOSE g \in found : \A h \in found : g <= h]
        groupSize == IF found = {} THEN 1 ELSE Len(group)
        matches == {k \in DOMAIN group : group[k].id = event.id}
        eventIndexInGroup == IF matches = {} THEN 0
                             ELSE (CHOOSE k \in matches : \A h \in matches : k <= h) - 1
    IN [event |-> event, top |-> position.top, height |-> position.height,
        left |-> IF groupSize > 1 THEN [num |-> eventIndexInGroup, den |-> groupSize]
                 ELSE [num |-> 0, den |-> 1],
        width |-> IF groupSize > 1 THEN [num |-> 1, den |-> groupSize]
                  ELSE [num |-> 1, den |-> 1]]

\* eventsInSlot.map(...): the chips of one slot cell
slotChips(eventsInSlot) ==
    [k \in DOMAIN eventsInSlot |-> chipStyle(eventsInSlot, eventsInSlot[k])]

\* the slot cells of WeekView that hold chips (eventsInSlot.length > 0), for
\* well-formed events, rendered on the day now
WeekViewCells(evs, currentDate, now) ==
    LET weekDays == getWeekGrid(currentDate)
        timeSlots == getTimeSlots(now)
        weekEvents == getEventsForWeek(evs, weekDays[1])
        eventsIn(dayIndex, slotIndex) ==
            getEventsForTimeSlot(getEventsForDay(weekDays, weekEvents, dayIndex),
                                 timeSlots[slotIndex])
    IN {[dayIndex |-> d, slotIndex |-> s, chips |-> slotChips(eventsIn(d, s))] :
          <<d, s>> \in {c \in (1..7) \X (1..SlotsPerDay) : eventsIn(c[1], c[2]) # <<>>}}

\* The events that have a chip to click in the view shown for st.  Month view:
\* CalendarCell renders the first three of getEventsForDate for each cell.
MonthChips(st, evs) ==
    LET cells == getCalendarGrid(st.currentDate)
    IN {e \in Range(evs) :
          /\ e.startDate.day >= cells[1].day
          /\ e.startDate.day <= cells[GridCells].day
          /\ LET dayEvents == getEventsForDate(evs, e.startDate)
             IN \E k \in 1..Min3(Len(dayEvents)) : dayEvents[k] = e}

\* Week view: the chip of e is rendered in every (day, slot) cell whose
\* getEventsForTimeSlot result contains e.
WeekChips(st, evs, now) ==
    LET weekDays == getWeekGrid(st.currentDate)
        timeSlots == getTimeSlots(now)
    IN {e \in Range(evs) :
          /\ inWeek(e, weekDays[1])
          /\ \E dayIndex \in 1..7 : onDay(e, weekDays[dayIndex])
          /\ \E s \in 1..SlotsPerDay : inTimeSlot(e, timeSlots[s])}

\* ------------------------------------------------------------------------
\* EventModal: the form
\* ------------------------------------------------------------------------
EmptyInput == [empty |-> TRUE]

\* value of a datetime-local input: "YYYY-MM-DDTHH:mm", or "" when cleared
DateTimeLocal(y, mo, d, h, mi) == [y |-> y, mo |-> mo, d |-> d, h |-> h, mi |-> mi]

\* new Date(value) of such a value
parseDateTimeLocal(value) ==
    IF value = EmptyInput THEN InvalidDate
    ELSE MkDate(value.y, value.mo - 1, value.d, value.h, value.mi)

formatDateTimeLocal(date) ==
    DateTimeLocal(getFullYear(date), getMonth(date) + 1, getDate(date),
                  getHours(date), getMinutes(date))

\* the useEffect body of EventModal for an open dialog
resetFormData(st, now) ==
    IF Truthy(st.selectedEvent)
    THEN [title |-> st.selectedEvent.title,
          description |-> st.selectedEvent.description,
          startDate |-> st.selectedEvent.startDate,
          endDate |-> st.selectedEvent.endDate]
    ELSE LET startDate == IF Truthy(st.selectedDate) THEN st.selectedDate ELSE now
         IN [title |-> Str(0, 0),
             description |-> 0,
             startDate |-> startDate,
             endDate |-> plusMs(setHours(startDate, getHours(startDate),
                                         getMinutes(startDate), 0, 0),
                                (startDate.ms % MsPerMinute) + MsPerHour)]

\* whether the effect runs after a render: its dependencies are isOpen, event
\* and selectedDate, compared by identity (fresh: a new object was passed)
effectRuns(old, new, fresh) ==
    /\ new.isEventModalOpen
    /\ \/ old.isEventModalOpen # new.isEventModalOpen
       \/ old.selectedEvent # new.selectedEvent
       \/ old.selectedDate # new.selectedDate
       \/ fresh

Single(key, message) == [k \in {key} |-> message]

\* EventModal.validateForm: the error mapping it builds
validateForm(fd) ==
    LET title == IF length(trim(fd.title)) = 0
                 THEN Single("title", "Title is required")
                 ELSE IF length(fd.title) > 100
                      THEN Single("title", "Title must be 100 characters or less")
                      ELSE NoErrors
        description == IF fd.description > 500
                       THEN Single("description",
                                   "Description must be 500 characters or less")
                       ELSE NoErrors
        startReq == IF ~Truthy(fd.startDate)
                    THEN Single("startDate", "Start date is required")
                    ELSE NoErrors
        endReq == IF ~Truthy(fd.endDate)
                  THEN Single("endDate", "End date is required")
                  ELSE NoErrors
        endAfter == IF Truthy(fd.startDate) /\ Truthy(fd.endDate)
                       /\ DateGE(fd.startDate, fd.endDate)
                    THEN Single("endDate", "End date must be after start date")
                    ELSE NoErrors
    IN endAfter @@ endReq @@ startReq @@ description @@ title

\* event.utils validateEvent: the list of messages
validateEvent(event) ==
    (IF ~Truthy(event.title) \/ length(trim(event.title)) = 0
     THEN <<"Title is required">> ELSE <<>>)
    \o (IF Truthy(event.title) /\ length(event.title) > 100
        THEN <<"Title must be 100 characters or less">> ELSE <<>>)
    \o (IF event.description > 500
        THEN <<"Description must be 500 characters or less">> ELSE <<>>)
    \o (IF ~Truthy(event.startDate) THEN <<"Start date is required">> ELSE <<>>)
    \o (IF ~Truthy(event.endDate) THEN <<"End date is required">> ELSE <<>>)
    \o (IF Truthy(event.startDate) /\ Truthy(event.endDate)
           /\ DateGE(event.startDate, event.endDate)
        THEN <<"End date must be after start date">> ELSE <<>>)

\* useEventManager: the field an error message is filed under, by the
\* substring it includes
errorField(message) ==
    CASE message = "Title is required" -> "title"
      [] message = "Title must be 100 characters or less" -> "title"
      [] message = "Description must be 500 characters or less" -> "description"
      [] message = "Start date is required" -> "startDate"
      [] message = "End date is required" -> "endDate"
      [] message = "End date must be after start date" -> "endDate"

RECURSIVE errorMap(_)
\* useEventManager.validateForm: the mapping built from validateEvent's list,
\* later messages overwriting earlier ones of the same field
errorMap(messages) ==
    IF messages = <<>> THEN NoErrors
    ELSE LET n == Len(messages)
         IN Single(errorField(messages[n]), messages[n]) @@ errorMap(SubSeq(messages, 1, n - 1))

without(errs, keys) == [k \in (DOMAIN errs) \ keys |-> errs[k]]

\* EventModal.handleChange
handleChange(fd, field, value) == [fd EXCEPT ![field] = value]

\* EventModal.handleDateTimeChange: the new form data
handleDateTimeChange(fd, field, value) ==
    LET newDate == parseDateTimeLocal(value)
    IN IF field = "startDate" /\ DateGT(newDate, fd.endDate)
       THEN [fd EXCEPT ![field] = newDate, !.endDate = plusMs(newDate, MsPerHour)]
       ELSE [fd EXCEPT ![field] = newDate]

\* a variant that never looks the identifier up
handleEventSave_alwaysAdd(evs, eventData) ==
    <<[cb |-> "onEventAdd", id |-> eventData.id, data |-> eventData]>>

\* CalendarView.handleEventSave: the callbacks it invokes
handleEventSave(evs, eventData) ==
    IF eventData.id # "" /\ \E i \in DOMAIN evs : evs[i].id = eventData.id
    THEN <<[cb |-> "onEventUpdate", id |-> eventData.id, data |-> eventData]>>
    ELSE <<[cb |-> "onEventAdd", id |-> eventData.id, data |-> eventData]>>

\* CalendarView.handleEventDelete
handleEventDelete(id) == <<[cb |-> "onEventDelete", id |-> id]>>

\* a variant that submits without looking at the validation result
handleSubmit_unvalidated(fd, event, evs, newId) ==
    [errors |-> validateForm(fd),
     saved |-> TRUE,
     emitted |-> handleEventSave(evs,
            [id |-> IF Truthy(event) /\ event.id # "" THEN event.id ELSE newId,
             title |-> fd.title, description |-> fd.description,
             startDate |-> fd.startDate, endDate |-> fd.endDate])]

\* EventModal.handleSubmit of the form data fd for the event under edit (event),
\* newId being the identifier generated when there is none: the errors it
\* sets, whether onSave and onClose were called, and the callbacks invoked
handleSubmit(fd, event, evs, newId) ==
    IF DOMAIN validateForm(fd) # {}
    THEN [errors |-> validateForm(fd), saved |-> FALSE, emitted |-> <<>>]
    ELSE [errors |-> validateForm(fd),
          saved |-> TRUE,
          emitted |-> handleEventSave(evs,
            [id |-> IF Truthy(event) /\ event.id # "" THEN event.id ELSE newId,
             title |-> fd.title, description |-> fd.description,
             startDate |-> fd.startDate, endDate |-> fd.endDate])]

\* EventModal.handleDelete
handleDelete(event, onDelete) ==
    IF Truthy(event) /\ event.id # "" /\ onDelete
    THEN handleEventDelete(event.id)
    ELSE <<>>

\* ------------------------------------------------------------------------
\* The widget: CalendarView with its views and its dialog
\* ------------------------------------------------------------------------
TitleInputs == {Str(5, 1), Str(101, 0)}
DescriptionInputs == {501}
DateTimeInputs == {EmptyInput, DateTimeLocal(2024, 3, 20, 10, 0)}
ClickDays == {D20240320.day}
ClickSlots == {19}
GenIds == {"evt-new"}

Init ==
    /\ \E v \in Views : state = InitialState(D20240315, v)
    /\ InitModal(Today)
    /\ InitPure
    /\ events = <<evt1, evt2>>
    /\ managerEvents = useEventManagerMount(events)
    /\ lastOp = [op |-> "init"]

\* the render after a state change: the dialog's effect may reset the form
Render(new, fresh) ==
    IF effectRuns(state, new, fresh)
    THEN formData' = resetFormData(new, Today) /\ errors' = NoErrors
    ELSE UNCHANGED <<formData, errors>>

Navigate ==
    \E direction \in Directions :
        /\ InWindow(handleNavigation(state, direction).currentDate,
                    NavWindowStart, NavWindowDays)
        /\ state' = handleNavigation(state, direction)
        /\ lastOp' = [op |-> "handleNavigation"]
        /\ emitted' = <<>>
        /\ UNCHANGED <<formData, errors, events, pure>>

GoToToday ==
    /\ state' = goToToday(state, Today)
    /\ lastOp' = [op |-> "goToToday"]
    /\ emitted' = <<>>
    /\ UNCHANGED <<formData, errors, events, pure>>

ViewToggle ==
    /\ state' = handleViewToggle(state)
    /\ lastOp' = [op |-> "handleViewToggle"]
    /\ emitted' = <<>>
    /\ UNCHANGED <<formData, errors, events, pure>>

\* CalendarCell.handleClick (month) / WeekView.handleTimeSlotClick (week),
\* both ending in CalendarView.handleDateClick
DateClick ==
    \E date \in
        IF state.view = "month"
        THEN {c \in Range(getCalendarGrid(state.currentDate)) : c.day \in ClickDays}
        ELSE {setHours(getWeekGrid(state.currentDate)[i],
                       getHours(getTimeSlots(Today)[s]),
                       getMinutes(getTimeSlots(Today)[s]), 0, 0) :
                i \in {j \in 1..7 : getWeekGrid(state.currentDate)[j].day \in ClickDays},
                s \in ClickSlots} :
      \E fresh \in IF state.view = "month" THEN BOOLEAN ELSE {TRUE} :
        /\ state' = openEventModal(selectDate(state, date), Undefined, date)
        /\ lastOp' = [op |-> "handleDateClick"]
        /\ emitted' = <<>>
        /\ Render(state', fresh)
        /\ UNCHANGED <<events, pure>>

\* a click on an event chip: CalendarView.handleEventClick
EventClick ==
    \E event \in IF state.view = "month" THEN MonthChips(state, events)
                 ELSE WeekChips(state, events, Today) :
      \E fresh \in BOOLEAN :
        /\ state' = openEventModal(state, event, Undefined)
        /\ lastOp' = [op |-> "handleEventClick"]
        /\ emitted' = <<>>
        /\ Render(state', fresh)
        /\ UNCHANGED <<events, pure>>

\* Cancel, the close button, the backdrop and Escape
CloseModal ==
    /\ state.isEventModalOpen
    /\ state' = closeEventModal(state)
    /\ lastOp' = [op |-> "closeEventModal"]
    /\ emitted' = <<>>
    /\ UNCHANGED <<formData, errors, events, pure>>

Change ==
    /\ state.isEventModalOpen
    /\ \E field \in {"title", "description"} :
       \E value \in IF field = "title" THEN TitleInputs ELSE DescriptionInputs :
        /\ formData' = handleChange(formData, field, value)
        /\ errors' = without(errors, {field})
        /\ lastOp' = [op |-> "handleChange"]
    /\ emitted' = <<>>
    /\ UNCHANGED <<state, events, pure>>

DateTimeChange ==
    /\ state.isEventModalOpen
    /\ \E field \in {"startDate", "endDate"}, value \in DateTimeInputs :
        /\ formData' = handleDateTimeChange(formData, field, value)
        /\ errors' = IF field = "startDate"
                     THEN without(errors, {"startDate", "endDate"})
                     ELSE IF {"startDate", "endDate"} \cap DOMAIN errors # {}
                          THEN without(errors, {"endDate"})
                          ELSE errors
        /\ lastOp' = [op |-> "handleDateTimeChange"]
    /\ emitted' = <<>>
    /\ UNCHANGED <<state, events, pure>>

Submit ==
    /\ state.isEventModalOpen
    /\ \E newId \in GenIds :
        LET r == handleSubmit(formData, state.selectedEvent, events, newId)
        IN /\ emitted' = r.emitted
           /\ errors' = r.errors
           /\ state' = IF r.saved THEN closeEventModal(closeEventModal(state))
                       ELSE state
    /\ lastOp' = [op |-> "handleSubmit"]
    /\ UNCHANGED <<formData, events, pure>>

Delete ==
    /\ state.isEventModalOpen
    /\ Truthy(state.selectedEvent)
    /\ emitted' = handleDelete(state.selectedEvent, Truthy(state.selectedEvent))
    /\ state' = IF emitted' = <<>> THEN state
                ELSE closeEventModal(closeEventModal(state))
    /\ lastOp' = [op |-> "handleDelete"]
    /\ UNCHANGED <<formData, errors, events, pure>>

\* the owning application renders the widget with another events collection
SupplyEvents ==
    /\ \E evs \in EventLists \ {events} :
         /\ events' = evs
         /\ managerEvents' = useEventManager(managerEvents, evs)
    /\ lastOp' = [op |-> "events"]
    /\ emitted' = <<>>
    /\ UNCHANGED <<state, formData, errors, refDate, calendarGrid, call>>

Next ==
    \/ Navigate
    \/ GoToToday
    \/ ViewToggle
    \/ DateClick
    \/ EventClick
    \/ CloseModal
    \/ Change
    \/ DateTimeChange
    \/ Submit
    \/ Delete
    \/ SupplyEvents

Spec == Init /\ [][Next]_vars

\* ------------------------------------------------------------------------
\* MonthView: one render for a given currentDate
\* ------------------------------------------------------------------------
\* reference dates: every day of GridDays days from 2023-01-01, at midnight
\* and at 13:45:10.500
GridDays == 1461
GridFirstDay == DaysFromCivil(2023, 0, 1)
GridDates ==
    {[day |-> n, ms |-> t] : n \in GridFirstDay..(GridFirstDay + GridDays - 1),
                             t \in {0, 49510500}}

\* the cells MonthView renders: each grid date with its isCurrentMonth flag
MonthView(currentDate) ==
    LET grid == getCalendarGrid(currentDate)
    IN [i \in DOMAIN grid |->
          [date |-> grid[i], isCurrentMonth |-> isCurrentMonth(grid[i], currentDate)]]

InitGrid ==
    /\ state = InitialState(D20240315, "month")
    /\ InitModal(Today)
    /\ events = <<evt1, evt2>>
    /\ managerEvents = useEventManagerMount(events)
    /\ lastOp = [op |-> "init"]
    /\ refDate \in GridDates
    /\ calendarGrid = <<>>
    /\ call = NoCall

RenderMonthView ==
    /\ calendarGrid = <<>>
    /\ calendarGrid' = MonthView(refDate)
    /\ UNCHANGED <<state, formData, errors, events, emitted, lastOp, refDate, call,
                   managerEvents>>

NextGrid == RenderMonthView

SpecGrid == InitGrid /\ [][NextGrid]_vars

\* ------------------------------------------------------------------------
\* The exported functions on their own: one call, or a chain of calls that
\* feeds a result back in
\* ------------------------------------------------------------------------
\* argument dates: every day of UtilDays days from 2023-12-01, at midnight and
\* at 13:45:10.500
UtilDays == 150
UtilFirstDay == DaysFromCivil(2023, 11, 1)
UtilDates ==
    {[day |-> n, ms |-> t] : n \in UtilFirstDay..(UtilFirstDay + UtilDays - 1),
                             t \in {0, 49510500}}
\* the longest chain of month steps
MaxChain == 3

\* events around the week of Sunday 2024-03-17, among them one without a
\* startDate, one without an endDate and one with an Invalid Date
UtilEvent(id, startDate, endDate) ==
    [id |-> id, title |-> Str(5, 0), description |-> 0,
     startDate |-> startDate, endDate |-> endDate]
D20240317 == MkDate(2024, 2, 17, 0, 0)
D20240323 == MkDate(2024, 2, 23, 0, 0)
UtilEventPool ==
    { UtilEvent("sun-0000", D20240317, MkDate(2024, 2, 17, 1, 0)),
      UtilEvent("sun-0900", MkDate(2024, 2, 17, 9, 0), MkDate(2024, 2, 17, 10, 0)),
      UtilEvent("sat-last-ms", setHours(D20240323, 23, 59, 59, 999),
                MkDate(2024, 2, 24, 0, 30)),
      UtilEvent("next-sun-0000", MkDate(2024, 2, 24, 0, 0), MkDate(2024, 2, 24, 1, 0)),
      UtilEvent("sat-into-sun", MkDate(2024, 2, 16, 22, 0), MkDate(2024, 2, 17, 2, 0)),
      UtilEvent("three-weeks", MkDate(2024, 2, 10, 8, 0), MkDate(2024, 2, 30, 8, 0)),
      UtilEvent("wed-0930", MkDate(2024, 2, 20, 9, 30), MkDate(2024, 2, 20, 10, 0)),
      UtilEvent("wed-1000", MkDate(2024, 2, 20, 10, 0), MkDate(2024, 2, 20, 12, 0)),
      UtilEvent("no-start", Undefined, MkDate(2024, 2, 20, 10, 0)),
      UtilEvent("no-end", MkDate(2024, 2, 20, 9, 30), Undefined),
      UtilEvent("invalid-start", InvalidDate, MkDate(2024, 2, 20, 10, 0)) }
\* the longest events collection passed to a function
MaxEvents == 2
UtilEventLists ==
    UNION {[1..n -> UtilEventPool] : n \in 0..MaxEvents}
UtilWeekStarts == {D20240317, MkDate(2024, 2, 17, 10, 15), MkDate(2024, 2, 20, 13, 45)}
UtilDayArgs == {D20240317, MkDate(2024, 2, 20, 10, 15), D20240323}
UtilSlots == {20, 21, 22}

\* events of Wednesday 2024-03-20 between 09:00 and 12:00, named by their
\* hours
HourEvent(id, from, to) ==
    UtilEvent(id, MkDate(2024, 2, 20, from, 0), MkDate(2024, 2, 20, to, 0))
GroupEventPool ==
    { HourEvent("09-10", 9, 10), HourEvent("10-11", 10, 11), HourEvent("11-12", 11, 12),
      HourEvent("09-11", 9, 11), HourEvent("10-12", 10, 12), HourEvent("09-12", 9, 12),
      UtilEvent("0930-1030", MkDate(2024, 2, 20, 9, 30), MkDate(2024, 2, 20, 10, 30)) }
\* the longest events collection passed to groupOverlappingEvents
MaxGroupEvents == 3
GroupEventLists ==
    UNION {[1..n -> GroupEventPool] : n \in 0..MaxGroupEvents}

\* the events a pair is drawn from: the hour events and the well-formed
\* events around the week
PairEventPool ==
    GroupEventPool \cup {e \in UtilEventPool : IsDate(e.startDate) /\ IsDate(e.endDate)}

\* the events whose position is computed: the pairs' events, a zero-duration
\* event, an event shorter than a slot and one late in the evening
PositionEventPool ==
    PairEventPool \cup
    { UtilEvent("1015-1015", MkDate(2024, 2, 20, 10, 15), MkDate(2024, 2, 20, 10, 15)),
      UtilEvent("1005-1020", MkDate(2024, 2, 20, 10, 5), MkDate(2024, 2, 20, 10, 20)),
      UtilEvent("2345-2359", MkDate(2024, 2, 20, 23, 45), MkDate(2024, 2, 20, 23, 59)) }

\* events of the week of Sunday 2024-03-17 shown in WeekView, three of them
\* starting in the slot 09:30 of Wednesday, one running into Thursday
WeekViewEventPool ==
    { HourEvent("09-10", 9, 10),
      UtilEvent("0930-1030", MkDate(2024, 2, 20, 9, 30), MkDate(2024, 2, 20, 10, 30)),
      UtilEvent("wed-0930", MkDate(2024, 2, 20, 9, 30), MkDate(2024, 2, 20, 10, 0)),
      UtilEvent("0945-1100", MkDate(2024, 2, 20, 9, 45), MkDate(2024, 2, 20, 11, 0)),
      UtilEvent("sun-0900", MkDate(2024, 2, 17, 9, 0), MkDate(2024, 2, 17, 10, 0)),
      UtilEvent("wed-into-thu", MkDate(2024, 2, 20, 22, 0), MkDate(2024, 2, 21, 2, 0)) }
\* the longest events collection WeekView is rendered with
MaxWeekEvents == 3
\* collections with unique ids
WeekViewEventLists ==
    UNION {{l \in [1..n -> WeekViewEventPool] :
              \A i, j \in 1..n : i # j => l[i].id # l[j].id} : n \in 0..MaxWeekEvents}
\* the days on which the widget is viewed: the Wednesday and the Sunday of
\* the displayed week, and a day after it
ViewingDays == {Today, MkDate(2024, 2, 17, 8, 0), MkDate(2024, 3, 2, 8, 0)}

\* what is typed into the start field: cleared, before the current end, the
\* current end of the 09:00-10:00 form, and later hours
StartInputs ==
    {EmptyInput} \cup {DateTimeLocal(2024, 3, 20, h, 0) : h \in {8, 10, 11, 12}}
\* the dialog as its effect leaves it: opened on one of the hour events, or
\* opened to create an event on the clicked date
OpenedDialogs ==
    {[InitialState(D20240315, "week") EXCEPT !.selectedEvent = ev,
                                             !.isEventModalOpen = TRUE] :
        ev \in GroupEventPool}
    \cup {[InitialState(D20240315, "week") EXCEPT !.selectedDate = d,
                                                  !.isEventModalOpen = TRUE] :
             d \in {MkDate(2024, 2, 20, 9, 30), MkDate(2024, 2, 20, 23, 30)}}

InitUtils ==
    /\ state = InitialState(D20240315, "month")
    /\ InitModal(Today)
    /\ events = <<evt1, evt2>>
    /\ managerEvents = useEventManagerMount(events)
    /\ lastOp = [op |-> "init"]
    /\ refDate = D20240315
    /\ calendarGrid = <<>>
    /\ call = NoCall

UtilsFrame ==
    UNCHANGED <<state, formData, errors, events, emitted, lastOp, refDate, calendarGrid,
                managerEvents>>

\* getNextMonth / getPreviousMonth, by the sign of the step
monthStep(date, step) ==
    IF step = 1 THEN getNextMonth(date) ELSE getPreviousMonth(date)

CallGetWeekGrid ==
    /\ call = NoCall
    /\ \E d \in UtilDates :
         call' = [fn |-> "getWeekGrid", date |-> d, result |-> getWeekGrid(d)]
    /\ UtilsFrame

CallMonthStep ==
    /\ call = NoCall
    /\ \E d \in UtilDates, step \in {1, -1} :
         call' = [fn |-> "monthStep", origin |-> d, path |-> <<step>>,
                  date |-> d, result |-> monthStep(d, step)]
    /\ UtilsFrame

\* a further step from the date the previous step returned
ChainMonthStep ==
    /\ call.fn = "monthStep"
    /\ Len(call.path) < MaxChain
    /\ \E step \in {1, -1} :
         call' = [call EXCEPT !.path = Append(@, step),
                              !.date = call.result,
                              !.result = monthStep(@, step)]
    /\ UtilsFrame

CallGetEventsForDate ==
    /\ call = NoCall
    /\ \E evs \in UtilEventLists, date \in UtilDayArgs :
         LET mem == arrayFilter(evs, Range(getEventsForDate(evs, date)))
         IN call' = [fn |-> "getEventsForDate", events |-> evs, date |-> date,
                     raised |-> getEventsForDateRaises(evs),
                     result |-> IF getEventsForDateRaises(evs) THEN <<>>
                                ELSE getEventsForDate(evs, date),
                     eventsAfter |-> mem.receiver, sameObject |-> mem.sameObject]
    /\ UtilsFrame

CallGetEventsForWeek ==
    /\ call = NoCall
    /\ \E evs \in UtilEventLists, weekStart \in UtilWeekStarts :
         LET mem == arrayFilter(evs, Range(getEventsForWeek(evs, weekStart)))
         IN call' = [fn |-> "getEventsForWeek", events |-> evs, weekStart |-> weekStart,
                     raised |-> FALSE,
                     result |-> getEventsForWeek(evs, weekStart),
                     eventsAfter |-> mem.receiver, sameObject |-> mem.sameObject]
    /\ UtilsFrame

\* WeekView rendered with events and currentDate: getEventsForDay(dayIndex)
CallGetEventsForDay ==
    /\ call = NoCall
    /\ \E evs \in UtilEventLists, dayIndex \in 1..7 :
         LET weekDays == getWeekGrid(D20240320)
             weekEvents == getEventsForWeek(evs, weekDays[1])
             raised == getEventsForDayRaises(weekDays, weekEvents, dayIndex)
             mem == arrayFilter(evs, Range(weekEvents))
         IN call' = [fn |-> "getEventsForDay", events |-> evs,
                     eventsAfter |-> mem.receiver, sameObject |-> mem.sameObject,
                     day |-> weekDays[dayIndex], weekEvents |-> weekEvents,
                     raised |-> raised,
                     result |-> IF raised THEN <<>>
                                ELSE getEventsForDay(weekDays, weekEvents, dayIndex)]
    /\ UtilsFrame

\* WeekView rendered with events and currentDate:
\* getEventsForTimeSlot(timeSlot, dayIndex)
CallGetEventsForTimeSlot ==
    /\ call = NoCall
    /\ \E evs \in UtilEventLists, dayIndex \in 1..7, slot \in UtilSlots :
         LET weekDays == getWeekGrid(D20240320)
             timeSlot == getTimeSlots(Today)[slot]
             weekEvents == getEventsForWeek(evs, weekDays[1])
             raised == getEventsForDayRaises(weekDays, weekEvents, dayIndex)
             dayEvents == IF raised THEN <<>>
                          ELSE getEventsForDay(weekDays, weekEvents, dayIndex)
             mem == arrayFilter(evs, Range(weekEvents))
         IN call' = [fn |-> "getEventsForTimeSlot", events |-> evs,
                     eventsAfter |-> mem.receiver, sameObject |-> mem.sameObject,
                     day |-> weekDays[dayIndex], timeSlot |-> timeSlot,
                     dayEvents |-> dayEvents,
                     raised |-> raised,
                     result |-> getEventsForTimeSlot(dayEvents, timeSlot)]
    /\ UtilsFrame

CallGroupOverlappingEvents ==
    /\ call = NoCall
    /\ \E evs \in GroupEventLists :
         call' = [fn |-> "groupOverlappingEvents", events |-> evs,
                  raised |-> FALSE,
                  result |-> groupOverlappingEvents(evs),
                  eventsAfter |-> readOnly(evs), sameObject |-> FALSE]
    /\ UtilsFrame

CallCalculateEventPosition ==
    /\ call = NoCall
    /\ \E e \in PositionEventPool :
         call' = [fn |-> "calculateEventPosition", events |-> <<e>>,
                  raised |-> FALSE,
                  result |-> calculateEventPosition(e),
                  eventsAfter |-> <<readOnly(e)>>, sameObject |-> FALSE]
    /\ UtilsFrame

CallValidateEvent ==
    /\ call = NoCall
    /\ \E e \in UtilEventPool \cup GroupEventPool :
         call' = [fn |-> "validateEvent", events |-> <<e>>,
                  raised |-> FALSE,
                  result |-> validateEvent(e),
                  eventsAfter |-> <<readOnly(e)>>, sameObject |-> FALSE]
    /\ UtilsFrame

\* the dialog open on events[k] with the form loaded from it and then edited
\* (handleChange, handleDateTimeChange), and submitted
CallHandleSubmit ==
    /\ call = NoCall
    /\ \E evs \in GroupEventLists \ {<<>>}, title \in TitleInputs,
          value \in DateTimeInputs, newId \in GenIds :
         LET event == evs[1]
             loaded == [title |-> event.title, description |-> event.description,
                        startDate |-> event.startDate, endDate |-> event.endDate]
             fd == handleDateTimeChange(handleChange(loaded, "title", title),
                                        "startDate", value)
         IN call' = [fn |-> "handleSubmit", events |-> evs, formData |-> fd,
                     raised |-> FALSE,
                     result |-> handleSubmit(fd, event, evs, newId),
                     eventsAfter |-> readOnly(evs), sameObject |-> FALSE]
    /\ UtilsFrame

CallEventsOverlap ==
    /\ call = NoCall
    /\ \E a, b \in PairEventPool :
         call' = [fn |-> "eventsOverlap", events |-> <<a, b>>,
                  raised |-> FALSE,
                  result |-> eventsOverlap(a, b),
                  reversed |-> eventsOverlap(b, a),
                  eventsAfter |-> readOnly(<<a, b>>), sameObject |-> FALSE]
    /\ UtilsFrame

\* WeekView rendered with events, currentDate = 2024-03-20, on the day now
CallWeekViewRender ==
    /\ call = NoCall
    /\ \E evs \in WeekViewEventLists, now \in ViewingDays :
         LET weekEvents == getEventsForWeek(evs, getWeekGrid(D20240320)[1])
             mem == arrayFilter(evs, Range(weekEvents))
         IN call' = [fn |-> "WeekView", events |-> evs, currentDate |-> D20240320,
                     now |-> now, raised |-> FALSE,
                     cells |-> WeekViewCells(evs, D20240320, now),
                     eventsAfter |-> mem.receiver, sameObject |-> mem.sameObject]
    /\ UtilsFrame

\* the start field edited in the dialog, the form being as the effect set it
CallHandleDateTimeChange ==
    /\ call = NoCall
    /\ \E st \in OpenedDialogs, value \in StartInputs :
         LET fd == resetFormData(st, Today)
             edited == IF st.selectedEvent = Null THEN <<>> ELSE <<st.selectedEvent>>
         IN call' = [fn |-> "handleDateTimeChange", formData |-> fd,
                     field |-> "startDate", value |-> value,
                     raised |-> FALSE,
                     result |-> handleDateTimeChange(fd, "startDate", value),
                     events |-> edited,
                     eventsAfter |-> readOnly(edited), sameObject |-> FALSE]
    /\ UtilsFrame

NextUtils ==
    \/ CallHandleDateTimeChange
    \/ CallWeekViewRender
    \/ CallEventsOverlap
    \/ CallCalculateEventPosition
    \/ CallValidateEvent
    \/ CallHandleSubmit
    \/ CallGroupOverlappingEvents
    \/ CallGetWeekGrid
    \/ CallMonthStep
    \/ ChainMonthStep
    \/ CallGetEventsForDate
    \/ CallGetEventsForWeek
    \/ CallGetEventsForDay
    \/ CallGetEventsForTimeSlot

SpecUtils == InitUtils /\ [][NextUtils]_vars

\* ------------------------------------------------------------------------
\* Properties of the hook (SpecHook)
\* ------------------------------------------------------------------------
MonthIndex(date) == getFullYear(date) * 12 + getMonth(date)

\* C1: in every reachable state of the hook, a non-null selectedEvent implies
\* that isEventModalOpen is true.
C1_SelectedEventImpliesOpen ==
    state.selectedEvent # Null => state.isEventModalOpen = TRUE

C1_Witness ==
    /\ state.selectedEvent = evt2
    /\ state.isEventModalOpen
    /\ lastOp.op = "navigate"

\* C2: navigate(prev|next) moves currentDate by one calendar month in month
\* view and by exactly 7 days in week view, and leaves view, selectedDate,
\* selectedEvent and isEventModalOpen alone; from 2024-03-15 in month view
\* next gives 2024-04-15, and from there in week view next gives 2024-04-22.
C2_Navigate ==
    [][
        lastOp'.op = "navigate" =>
            LET sign == IF lastOp'.direction = "next" THEN 1 ELSE -1
                old == state.currentDate
                new == state'.currentDate
            IN /\ state.view = "month" =>
                    /\ MonthIndex(new) = MonthIndex(old) + sign
                    /\ getDate(new) =
                         Min(getDate(old), DaysInMonth(getFullYear(new), getMonth(new)))
                    /\ new.ms = old.ms
               /\ state.view = "week" =>
                    /\ new.day = old.day + 7 * sign
                    /\ new.ms = old.ms
               /\ state'.view = state.view
               /\ state'.selectedDate = state.selectedDate
               /\ state'.selectedEvent = state.selectedEvent
               /\ state'.isEventModalOpen = state.isEventModalOpen
               /\ (old = D20240315 /\ state.view = "month" /\ sign = 1)
                    => new = MkDate(2024, 3, 15, 0, 0)
               /\ (old = MkDate(2024, 3, 15, 0, 0) /\ state.view = "week" /\ sign = 1)
                    => new = MkDate(2024, 3, 22, 0, 0)
    ]_vars

C2_Witness ==
    /\ lastOp.op = "navigate"
    /\ lastOp.direction = "next"
    /\ state.view = "week"
    /\ state.currentDate = MkDate(2024, 3, 22, 0, 0)

\* C3: openModal(event?, date?) sets selectedEvent to the event if given else
\* null, isEventModalOpen to true and selectedDate to the date if given else
\* its previous value; currentDate and view are unchanged, also when the
\* dialog is already open on another event.
C3_OpenModal ==
    [][
        lastOp'.op = "openEventModal" =>
            /\ state'.selectedEvent =
                 (IF lastOp'.event = Undefined THEN Null ELSE lastOp'.event)
            /\ state'.isEventModalOpen = TRUE
            /\ state'.selectedDate =
                 (IF lastOp'.date = Undefined THEN state.selectedDate ELSE lastOp'.date)
            /\ state'.currentDate = state.currentDate
            /\ state'.view = state.view
    ]_vars

C3_Witness ==
    /\ lastOp.op = "openEventModal"
    /\ lastOp.over = evt1
    /\ lastOp.event = evt2
    /\ lastOp.date = Undefined
    /\ state.selectedEvent = evt2
    /\ state.selectedDate = D20240320

\* C4: closeModal() sets selectedEvent to null and isEventModalOpen to false
\* and keeps selectedDate, currentDate and view (openModal(undefined,
\* 2024-03-20) then closeModal() leaves selectedDate = 2024-03-20); applying
\* it a second time changes nothing.
C4_CloseModal ==
    [][
        lastOp'.op = "closeEventModal" =>
            /\ state'.selectedEvent = Null
            /\ state'.isEventModalOpen = FALSE
            /\ state'.selectedDate = state.selectedDate
            /\ state'.currentDate = state.currentDate
            /\ state'.view = state.view
            /\ closeEventModal(state') = state'
            /\ (lastOp.op = "openEventModal" /\ lastOp.event = Undefined
                  /\ lastOp.date = D20240320)
                 => state'.selectedDate = D20240320
    ]_vars

C4_Witness ==
    /\ lastOp.op = "closeEventModal"
    /\ state.selectedDate = D20240320
    /\ state.selectedEvent = Null
    /\ ~state.isEventModalOpen

\* C5: goToToday changes only currentDate, setView only view and selectDate
\* only selectedDate; selectDate never opens the dialog.
C5_SingleField ==
    [][
        /\ lastOp'.op = "goToToday" =>
             state' = [state EXCEPT !.currentDate = state'.currentDate]
        /\ lastOp'.op = "setView" =>
             /\ state'.view = lastOp'.view
             /\ state' = [state EXCEPT !.view = state'.view]
        /\ lastOp'.op = "selectDate" =>
             /\ state'.selectedDate = lastOp'.date
             /\ state' = [state EXCEPT !.selectedDate = state'.selectedDate]
    ]_vars

C5_Witness ==
    /\ lastOp.op = "selectDate"
    /\ state.selectedDate = D20240320
    /\ ~state.isEventModalOpen
    /\ state.view = "week"

\* ------------------------------------------------------------------------
\* Properties of the widget (Spec)
\* ------------------------------------------------------------------------
\* C6: a submit of form data whose error mapping is non-empty invokes neither
\* onEventAdd nor onEventUpdate and leaves isEventModalOpen and selectedEvent
\* as they were.
C6_BlockedSubmit ==
    [][
        (lastOp'.op = "handleSubmit" /\ DOMAIN validateForm(formData) # {}) =>
            /\ emitted' = <<>>
            /\ state'.isEventModalOpen = state.isEventModalOpen
            /\ state'.selectedEvent = state.selectedEvent
    ]_vars

C6_Witness ==
    /\ lastOp.op = "handleSubmit"
    /\ "title" \in DOMAIN errors
    /\ emitted = <<>>
    /\ state.isEventModalOpen
    /\ state.selectedEvent = evt1

\* C7: a successful submit invokes exactly one callback once, onEventUpdate
\* when the submitted id is the id of an event of the current collection and
\* onEventAdd otherwise; a delete invokes onEventDelete once with the id of the
\* event under edit; no other handler invokes a callback.
C7_Callbacks ==
    [][
        /\ (lastOp'.op = "handleSubmit" /\ DOMAIN validateForm(formData) = {}) =>
             /\ Len(emitted') = 1
             /\ emitted'[1].id \in
                  (IF state.selectedEvent # Null THEN {state.selectedEvent.id} ELSE GenIds)
             /\ emitted'[1].cb =
                  (IF \E i \in DOMAIN events : events[i].id = emitted'[1].id
                   THEN "onEventUpdate" ELSE "onEventAdd")
             /\ emitted'[1].data.title = formData.title
             /\ emitted'[1].data.startDate = formData.startDate
             /\ emitted'[1].data.endDate = formData.endDate
        /\ lastOp'.op = "handleDelete" =>
             emitted' = <<[cb |-> "onEventDelete", id |-> state.selectedEvent.id]>>
        /\ lastOp'.op \notin {"handleSubmit", "handleDelete"} => emitted' = <<>>
    ]_vars

C7_Witness ==
    /\ lastOp.op = "handleSubmit"
    /\ Len(emitted) = 1
    /\ emitted[1].cb = "onEventUpdate"
    /\ emitted[1].id = "evt-1"
    /\ ~state.isEventModalOpen

\* the rules of the validator, stated on a candidate fd
RulesHold(fd) ==
    /\ length(trim(fd.title)) > 0
    /\ length(fd.title) <= 100
    /\ fd.description <= 500
    /\ IsDate(fd.startDate)
    /\ IsDate(fd.endDate)
    /\ DateLT(fd.startDate, fd.endDate)

\* the fields whose rule fd violates
ExpectedErrorFields(fd) ==
    {k \in {"title"} : length(trim(fd.title)) = 0 \/ length(fd.title) > 100}
    \cup {k \in {"description"} : fd.description > 500}
    \cup {k \in {"startDate"} : ~IsDate(fd.startDate)}
    \cup {k \in {"endDate"} : ~IsDate(fd.endDate) \/ ~DateLT(fd.startDate, fd.endDate)}

\* C8: the validator returns an empty error mapping exactly when the title is
\* non-empty after trimming and at most 100 characters, the description at
\* most 500 characters, both dates are present and startDate is strictly
\* earlier than endDate; each violated rule is reported under its own field,
\* startDate >= endDate under endDate.
C8_ValidatorExact ==
    /\ (DOMAIN validateForm(formData) = {}) <=> RulesHold(formData)
    /\ (validateEvent(formData) = <<>>) <=> RulesHold(formData)
    /\ DOMAIN validateForm(formData) = ExpectedErrorFields(formData)
    /\ DOMAIN errorMap(validateEvent(formData)) = ExpectedErrorFields(formData)

\* ------------------------------------------------------------------------
\* Properties of the month grid (SpecGrid)
\* ------------------------------------------------------------------------
FirstOfMonth(date) == date.day - (getDate(date) - 1)

\* C9: monthGrid(d) has exactly 42 entries and entry i is the calendar day i
\* days after the Sunday on or before the 1st of d's month.
C9_GridConsecutive ==
    calendarGrid # <<>> =>
        /\ Len(calendarGrid) = 42
        /\ getDay(calendarGrid[1].date) = 0
        /\ calendarGrid[1].date.day <= FirstOfMonth(refDate)
        /\ FirstOfMonth(refDate) - calendarGrid[1].date.day <= 6
        /\ \A i \in 1..Len(calendarGrid) :
              calendarGrid[i].date.day = calendarGrid[1].date.day + (i - 1)
        /\ calendarGrid[8].date.day = calendarGrid[1].date.day + 7

C9_Witness ==
    /\ calendarGrid # <<>>
    /\ refDate = MkDate(2024, 11, 31, 0, 0)
    /\ calendarGrid[1].date = MkDate(2024, 11, 1, 0, 0)

\* C10: every day of d's month appears exactly once in monthGrid(d), the
\* cells flagged isCurrentMonth form one contiguous run as long as the month,
\* and every other cell lies in the month just before or just after, with
\* the right year.
C10_MonthCovered ==
    calendarGrid # <<>> =>
        LET y == getFullYear(refDate)
            m == getMonth(refDate)
            dim == DaysInMonth(y, m)
            cells == DOMAIN calendarGrid
            flagged == {i \in cells : calendarGrid[i].isCurrentMonth}
            civil == [i \in cells |-> CivilFromDays(calendarGrid[i].date.day)]
        IN /\ \A k \in 1..dim :
                Cardinality({i \in cells : civil[i] = [y |-> y, m |-> m, d |-> k]}) = 1
           /\ Cardinality(flagged) = dim
           /\ \A i, j \in flagged : \A k \in i..j : k \in flagged
           /\ \A i \in flagged : civil[i].y = y /\ civil[i].m = m
           /\ \A i \in cells \ flagged :
                IF \E j \in flagged : i < j
                THEN civil[i].y * 12 + civil[i].m = y * 12 + m - 1
                ELSE civil[i].y * 12 + civil[i].m = y * 12 + m + 1

C10_Witness ==
    /\ calendarGrid # <<>>
    /\ getFullYear(refDate) = 2024
    /\ getMonth(refDate) = 0
    /\ getFullYear(calendarGrid[1].date) = 2023
    /\ getMonth(calendarGrid[1].date) = 11
    /\ getMonth(calendarGrid[42].date) = 1
    /\ ~calendarGrid[1].isCurrentMonth

\* ------------------------------------------------------------------------
\* Properties of the exported functions (SpecUtils)
\* ------------------------------------------------------------------------
\* C11: for every date d, getWeekGrid(d) has exactly 7 consecutive calendar
\* days, the first a Sunday, the last the following Saturday, and the
\* calendar day of d is one of the 7.
C11_WeekGrid ==
    call.fn = "getWeekGrid" =>
        LET week == call.result
        IN /\ Len(week) = 7
           /\ \A i \in 1..6 : week[i + 1].day = week[i].day + 1
           /\ getDay(week[1]) = 0
           /\ getDay(week[7]) = 6
           /\ week[7].day = week[1].day + 6
           /\ \E i \in 1..7 : isSameDayCustom(week[i], call.date)

C11_Witness ==
    /\ call.fn = "getWeekGrid"
    /\ call.date = [day |-> DaysFromCivil(2024, 1, 29), ms |-> 49510500]
    /\ call.result[1] = MkDate(2024, 1, 25, 0, 0)
    /\ call.result[7] = MkDate(2024, 2, 2, 0, 0)

RECURSIVE Sum(_)
Sum(seq) == IF seq = <<>> THEN 0 ELSE Head(seq) + Sum(Tail(seq))

\* the day of month of date exists in the month that is offset months away
DayExistsIn(date, offset) ==
    LET total == MonthIndex(date) + offset
    IN getDate(date) <= DaysInMonth(total \div 12, total % 12)

\* C12: getNextMonth(d) / getPreviousMonth(d) return a date in the calendar
\* month immediately after / before d's month, with d's day of month kept
\* when the target month has it and otherwise clamped to the target month's
\* last day; so k successive steps from d land in month(d) + k.
C12_MonthStep ==
    call.fn = "monthStep" =>
        LET step == call.path[Len(call.path)]
            d == call.date
            r == call.result
        IN /\ MonthIndex(r) = MonthIndex(d) + step
           /\ getDate(r) = (IF DayExistsIn(d, step) THEN getDate(d)
                            ELSE DaysInMonth(getFullYear(r), getMonth(r)))
           /\ MonthIndex(r) = MonthIndex(call.origin) + Sum(call.path)

C12_Witness ==
    /\ call.fn = "monthStep"
    /\ call.origin = MkDate(2024, 0, 31, 0, 0)
    /\ call.path = <<1, 1, 1>>
    /\ call.result = MkDate(2024, 3, 29, 0, 0)

\* C13: getNextMonth(getPreviousMonth(d)) = d whenever d's day of month
\* exists in the previous month, getPreviousMonth(getNextMonth(d)) = d
\* whenever it exists in the next month, and a round trip that does not
\* return d starts on day 29, 30 or 31.
C13_RoundTrip ==
    (call.fn = "monthStep" /\ Len(call.path) = 2 /\ Sum(call.path) = 0) =>
        /\ DayExistsIn(call.origin, call.path[1]) => call.result = call.origin
        /\ call.result # call.origin => getDate(call.origin) \in {29, 30, 31}

C13_Witness ==
    /\ call.fn = "monthStep"
    /\ call.path = <<-1, 1>>
    /\ call.origin = [day |-> DaysFromCivil(2024, 2, 29), ms |-> 49510500]
    /\ call.result = call.origin

\* t lies in [from, from + span] with span in milliseconds, for valid dates
WithinMs(t, from, span) ==
    LET days == t.day - from.day
    IN /\ days >= 0
       /\ days <= span \div MsPerDay + 1
       /\ days * MsPerDay + t.ms - from.ms >= 0
       /\ days * MsPerDay + t.ms - from.ms <= span

\* C14: getEventsForWeek(events, weekStart) returns, in input order, exactly
\* the events whose startDate t satisfies (weekStart's day at 00:00:00.000)
\* <= t <= (weekStart + 6 days at 23:59:59.999), whatever the time of day of
\* weekStart.
C14_EventsInWeek ==
    call.fn = "getEventsForWeek" =>
        /\ ~call.raised
        /\ call.result =
             filter(call.events,
                    {e \in Range(call.events) :
                       /\ IsDate(e.startDate)
                       /\ WithinMs(e.startDate, startOfDay(call.weekStart),
                                   7 * MsPerDay - 1)})

\* C15: getEventsForTimeSlot returns, of the day's events it filters, exactly
\* those whose startDate t satisfies slotStart <= t < slotStart + 30 minutes
\* (an event starting exactly at slotStart + 30 min is left to the next
\* slot), whatever their endDate.
C15_EventsInTimeSlot ==
    (call.fn = "getEventsForTimeSlot" /\ ~call.raised) =>
        call.result =
          filter(call.dayEvents,
                 {e \in Range(call.dayEvents) :
                    /\ IsDate(e.startDate)
                    /\ WithinMs(e.startDate, call.timeSlot, 30 * MsPerMinute - 1)})

C15_Witness ==
    /\ call.fn = "getEventsForTimeSlot"
    /\ ~call.raised
    /\ call.timeSlot = MkDate(2024, 2, 20, 9, 30)
    /\ Len(call.dayEvents) = 2
    /\ call.dayEvents[1].id = "wed-1000"
    /\ call.dayEvents[2].id = "wed-0930"
    /\ Len(call.result) = 1
    /\ call.result[1].id = "wed-0930"

\* an event with both of its dates present and valid
WellFormed(e) == IsDate(e.startDate) /\ IsDate(e.endDate)

\* e starts on the day, ends on the day, or entirely spans it
OverlapsDay(e, day) ==
    \/ e.startDate.day = day.day
    \/ e.endDate.day = day.day
    \/ (e.startDate.day < day.day /\ e.endDate.day > day.day)

\* C16: WeekView.getEventsForDay returns every event of the supplied
\* collection that starts on the day, ends on the day, or entirely spans the
\* day (so at least the events getEventsForDate selects), including events
\* whose startDate lies before the displayed week.
C16_EventsOverlappingDay ==
    (call.fn = "getEventsForDay" /\ \A e \in Range(call.events) : WellFormed(e)) =>
        /\ ~call.raised
        /\ \A e \in Range(call.events) :
              OverlapsDay(e, call.day) => e \in Range(call.result)
        /\ Range(getEventsForDate(call.events, call.day)) \subseteq Range(call.result)

\* an event whose startDate or endDate is absent
Malformed(e) == Absent(e.startDate) \/ Absent(e.endDate)

\* what the called function returns for the collection without its
\* malformed events
ResultWithoutMalformed ==
    LET clean == filter(call.events, {e \in Range(call.events) : ~Malformed(e)})
    IN CASE call.fn = "getEventsForDate" -> getEventsForDate(clean, call.date)
         [] call.fn = "getEventsForWeek" -> getEventsForWeek(clean, call.weekStart)
         [] OTHER ->
              LET weekDays == getWeekGrid(call.day)
                  dayIndex == call.day.day - weekDays[1].day + 1
                  dayEvents == getEventsForDay(weekDays,
                                               getEventsForWeek(clean, weekDays[1]),
                                               dayIndex)
              IN IF call.fn = "getEventsForDay" THEN dayEvents
                 ELSE getEventsForTimeSlot(dayEvents, call.timeSlot)

\* C17: when an event of the collection has an absent startDate or endDate,
\* getEventsForDate, getEventsForWeek, WeekView.getEventsForDay and
\* WeekView.getEventsForTimeSlot do not raise; the malformed event is left
\* out and the well-formed events are returned as they would be without it.
C17_MalformedExcluded ==
    (/\ call.fn \in {"getEventsForDate", "getEventsForWeek", "getEventsForDay",
                      "getEventsForTimeSlot"}
     /\ \E e \in Range(call.events) : Malformed(e)) =>
        /\ ~call.raised
        /\ call.result = ResultWithoutMalformed

\* the time spans of a and b share more than an instant
Intersect(a, b) ==
    /\ WithinMs(b.endDate, a.startDate, MsPerDay) /\ b.endDate # a.startDate
    /\ WithinMs(a.endDate, b.startDate, MsPerDay) /\ a.endDate # b.startDate

\* C20: groupOverlappingEvents([]) returns no groups, and for N events that
\* are pairwise non-overlapping (back-to-back events included) it returns N
\* singleton groups in input order.
C20_DisjointSingletons ==
    call.fn = "groupOverlappingEvents" =>
        LET evs == call.events
        IN /\ evs = <<>> => call.result = <<>>
           /\ (\A i, j \in DOMAIN evs : i # j => ~Intersect(evs[i], evs[j])) =>
                 call.result = [i \in DOMAIN evs |-> <<evs[i]>>]

C20_Witness ==
    /\ call.fn = "groupOverlappingEvents"
    /\ Len(call.events) = 3
    /\ call.events[1].id = "10-11"
    /\ call.events[2].id = "09-10"
    /\ call.events[3].id = "11-12"
    /\ Len(call.result) = 3
    /\ \A i \in 1..3 : call.result[i] = <<call.events[i]>>

C18_NoStaleCopy ==
    /\ managerEvents = events
    /\ \A e \in EventPool :
          getEventById(managerEvents, e.id) = getEventById(events, e.id)

\* instant s is earlier than instant t
Earlier(s, t) == s.day < t.day \/ (s.day = t.day /\ s.ms < t.ms)

\* C21: eventsOverlap(a, b) holds exactly when a.start < b.end and
\* b.start < a.end; it gives the same answer for (b, a); and back-to-back
\* events (a.end = b.start) do not overlap.
C21_EventsOverlap ==
    call.fn = "eventsOverlap" =>
        LET a == call.events[1]
            b == call.events[2]
        IN /\ call.result = (Earlier(a.startDate, b.endDate)
                              /\ Earlier(b.startDate, a.endDate))
           /\ call.result = call.reversed
           /\ a.endDate = b.startDate => ~call.result

C21_Witness ==
    /\ call.fn = "eventsOverlap"
    /\ call.events[1].id = "09-10"
    /\ call.events[2].id = "10-11"
    /\ call.result = FALSE

RECURSIVE filterIndexFrom(_, _, _)
filterIndexFrom(seq, pick, i) ==
    IF i > Len(seq) THEN <<>>
    ELSE (IF i \in pick THEN <<seq[i]>> ELSE <<>>) \o filterIndexFrom(seq, pick, i + 1)
\* the subsequence of seq at the positions in pick
filterIndex(seq, pick) == filterIndexFrom(seq, pick, 1)

\* the number of times x occurs in seq
Count(seq, x) == Cardinality({i \in DOMAIN seq : seq[i] = x})

\* the spans of a and b share more than an instant, whatever their days
Overlapping(a, b) ==
    Earlier(a.startDate, b.endDate) /\ Earlier(b.startDate, a.endDate)

\* after is before with event placed by the greedy rule: appended to the
\* first group holding an event that overlaps it, else as a new last group
GreedyStep(before, event, after) ==
    LET hits == {g \in DOMAIN before :
                   \E k \in DOMAIN before[g] : Overlapping(event, before[g][k])}
    IN IF hits = {}
       THEN /\ Len(after) = Len(before) + 1
            /\ \A g \in DOMAIN before : after[g] = before[g]
            /\ after[Len(after)] = <<event>>
       ELSE /\ Len(after) = Len(before)
            /\ \E g \in hits :
                  /\ \A h \in hits : g <= h
                  /\ after[g] = Append(before[g], event)
                  /\ \A h \in DOMAIN before : h # g => after[h] = before[h]

\* C22: groupOverlappingEvents is the single-pass greedy clustering: in input
\* order each event is appended to the first group that already holds an
\* overlapping event, else it starts a new group; the result is a partition
\* of the input (every event in exactly one group once, no empty group,
\* input order kept inside a group); A 09:00-10:00, B 09:30-10:30,
\* C 11:00-12:00 give [[A, B], [C]].
C22_GreedyPartition ==
    call.fn = "groupOverlappingEvents" =>
        LET evs == call.events
            groups == call.result
            all == Range(evs)
        IN /\ \A k \in 1..Len(evs) :
                 GreedyStep(groupOverlappingEvents(SubSeq(evs, 1, k - 1)), evs[k],
                            groupOverlappingEvents(SubSeq(evs, 1, k)))
           /\ \A g \in DOMAIN groups : groups[g] # <<>>
           /\ \A x \in all :
                 Sum([g \in DOMAIN groups |-> Count(groups[g], x)]) = Count(evs, x)
           /\ \A g \in DOMAIN groups : Range(groups[g]) \subseteq all
           /\ \A g \in DOMAIN groups :
                 \E pick \in SUBSET DOMAIN evs :
                    groups[g] = filterIndex(evs, pick)
           /\ (Len(evs) = 3 /\ evs[1].id = "09-10" /\ evs[2].id = "0930-1030"
                /\ evs[3].id = "11-12")
                => groups = << <<evs[1], evs[2]>>, <<evs[3]>> >>

C22_Witness ==
    /\ call.fn = "groupOverlappingEvents"
    /\ Len(call.events) = 3
    /\ call.events[1].id = "09-10"
    /\ call.events[2].id = "0930-1030"
    /\ call.events[3].id = "11-12"
    /\ Len(call.result) = 2
    /\ Len(call.result[1]) = 2

\* C23: in every group groupOverlappingEvents returns, for every input list
\* and order, the [startDate, endDate) spans of the members pairwise
\* intersect.
C23_GroupsPairwiseIntersect ==
    call.fn = "groupOverlappingEvents" =>
        \A g \in DOMAIN call.result :
           \A i, j \in DOMAIN call.result[g] :
              i # j => Overlapping(call.result[g][i], call.result[g][j])

\* the half-hour slot of the day an instant lies in, 0..47
SlotIndex(t) == t.ms \div (30 * MsPerMinute)

\* C24: calculateEventPosition(event) returns top = slotIndex(start) * 20 px
\* and height = max(1, slotIndex(end) - slotIndex(start)) * 20 px, with
\* slotIndex(t) = 2 * hour(t) + (1 if minute(t) >= 30); so the height is at
\* least 20 px for every event (zero-duration, shorter than a slot, or
\* ending at an earlier time of day than it starts) and the offset is one of
\* the slots 0..47.
C24_Position ==
    call.fn = "calculateEventPosition" =>
        LET event == call.events[1]
            slots == SlotIndex(event.endDate) - SlotIndex(event.startDate)
        IN /\ call.result.top = SlotIndex(event.startDate) * 20
           /\ call.result.height = (IF slots >= 1 THEN slots ELSE 1) * 20
           /\ call.result.height >= 20
           /\ call.result.top \in {k * 20 : k \in 0..47}

C24_Witness ==
    /\ call.fn = "calculateEventPosition"
    /\ call.events[1].id = "sat-into-sun"
    /\ call.result = [top |-> 880, height |-> 20]

\* C25: in week view the event at index i of an overlap group of size N gets
\* the horizontal span [i/N, (i+1)/N] of the column (left = i/N, width =
\* 1/N), so the chips of one group have pairwise disjoint spans that together
\* tile the column, and a singleton group has the full width.
C25_HorizontalSpan ==
    call.fn = "WeekView" =>
        \A cell \in call.cells :
           LET eventsInSlot == [k \in DOMAIN cell.chips |-> cell.chips[k].event]
               groups == groupOverlappingEvents(eventsInSlot)
               chipOf(ev) == cell.chips[CHOOSE k \in DOMAIN cell.chips :
                                           cell.chips[k].event = ev]
           IN \A g \in DOMAIN groups :
                 LET N == Len(groups[g])
                 IN /\ \A i \in 1..N :
                         /\ chipOf(groups[g][i]).left.num * N
                              = (i - 1) * chipOf(groups[g][i]).left.den
                         /\ chipOf(groups[g][i]).width.num * N
                              = chipOf(groups[g][i]).width.den
                    /\ \A i, j \in 1..N :
                         i # j => chipOf(groups[g][i]).left # chipOf(groups[g][j]).left

C25_Witness ==
    /\ call.fn = "WeekView"
    /\ \E cell \in call.cells :
          /\ cell.dayIndex = 4
          /\ cell.slotIndex = 20
          /\ Len(cell.chips) = 3
          /\ cell.chips[1].event.id = "0945-1100"
          /\ cell.chips[1].left = [num |-> 0, den |-> 3]
          /\ cell.chips[3].left = [num |-> 2, den |-> 3]
          /\ cell.chips[3].width = [num |-> 1, den |-> 3]

\* the (day column, slot row) cells in which a chip of event ev is rendered
CellsOf(ev) ==
    {<<cell.dayIndex, cell.slotIndex>> :
        cell \in {c \in call.cells :
                    \E k \in DOMAIN c.chips : c.chips[k].event = ev}}

\* C26: for every event whose startDate falls within the displayed week, week
\* view renders the event's chip in exactly one (day column, slot row) cell:
\* the column of the event's start day and the row of the 30-minute slot
\* that contains its start time of day, whatever the day on which the widget
\* is viewed and whatever the event's end date.
C26_ChipInOneCell ==
    call.fn = "WeekView" =>
        LET sunday == startOfWeek(call.currentDate).day
        IN \A ev \in Range(call.events) :
              ev.startDate.day \in sunday..(sunday + 6) =>
                 CellsOf(ev) = {<<ev.startDate.day - sunday + 1,
                                  SlotIndex(ev.startDate) + 1>>}

\* the chips of event ev in the column dayIndex
ChipsOf(ev, dayIndex) ==
    UNION {{c.chips[k] : k \in {i \in DOMAIN c.chips : c.chips[i].event = ev}} :
             c \in {x \in call.cells : x.dayIndex = dayIndex}}

\* the horizontal span of chip p ends at or before the span of chip q starts
LeftOf(p, q) ==
    (p.left.num * p.width.den + p.width.num * p.left.den) * q.left.den
      <= q.left.num * p.left.den * p.width.den

\* C27: in week view, two events of the same day whose [startDate, endDate)
\* spans intersect are laid out in the same overlap group and so in disjoint
\* horizontal spans, also when their starts fall in different 30-minute
\* slots (09:00-10:00 and 09:30-10:30).
C27_OverlapAcrossSlots ==
    call.fn = "WeekView" =>
        \A a, b \in Range(call.events), dayIndex \in 1..7 :
           (/\ a # b
            /\ a.startDate.day = b.startDate.day
            /\ Overlapping(a, b)) =>
               \A p \in ChipsOf(a, dayIndex), q \in ChipsOf(b, dayIndex) :
                  LeftOf(p, q) \/ LeftOf(q, p)

\* ------------------------------------------------------------------------
\* The dialog in edit mode (Spec)
\* ------------------------------------------------------------------------
\* C28: when the dialog was opened in edit mode on event e (selectedEvent =
\* e), a successful submit emits onEventUpdate(e.id, fields) and never
\* onEventAdd, also when the owning application has replaced the events
\* collection while the dialog was open, even by one without e.id.
C28_EditEmitsUpdate ==
    [][
        (/\ lastOp'.op = "handleSubmit"
         /\ state.selectedEvent # Null
         /\ DOMAIN validateForm(formData) = {}) =>
            /\ Len(emitted') = 1
            /\ emitted'[1].cb = "onEventUpdate"
            /\ emitted'[1].id = state.selectedEvent.id
    ]_vars

\* ------------------------------------------------------------------------
\* The form's start field (SpecUtils)
\* ------------------------------------------------------------------------
\* C29: from form data with startDate < endDate, after an edit of the start
\* date/time field the form data still has startDate < endDate (the end is
\* moved to start + 1 hour whenever the new start is not before the current
\* end).
C29_StartBeforeEnd ==
    (/\ call.fn = "handleDateTimeChange"
     /\ call.field = "startDate"
     /\ Earlier(call.formData.startDate, call.formData.endDate)) =>
        /\ IsDate(call.result.startDate)
        /\ IsDate(call.result.endDate)
        /\ Earlier(call.result.startDate, call.result.endDate)

\* ------------------------------------------------------------------------
\* The header of the week view (SpecHook)
\* ------------------------------------------------------------------------
\* C30: in week view, for every currentDate reached through navigation,
\* goToToday, setView or the initial date, the header's date-range label
\* starts on getWeekGrid(currentDate)[0] and ends on
\* getWeekGrid(currentDate)[6]: it names the seven days shown in the grid.
C30_WeekHeaderLabel ==
    state.view = "week" =>
        LET weekDays == getWeekGrid(state.currentDate)
            label == formatCurrentDate(state)
        IN /\ label.from = formatMMMd(weekDays[1])
           /\ label.to = formatMMMdyyyy(weekDays[7])

=============================================================================
